---- MODULE Spec2Model ----
(***************************************************************************)
(* A model of the PySME simulation kernel (src/sme/sme.py, src/sme/_bus.py *)
(* and src/sme/_exceptions.py): the double-buffered _Channel, Bus._clock,  *)
(* Network.add, Network.clock with its trace emission, and the SME driver  *)
(* that applies the options and invokes wire; further, on their own,       *)
(* Types._classify_type, Process._map_busses and Bus._setup_trace, and the *)
(* networks a foreign engine extends (@extends, ExternalBus).              *)
(*                                                                         *)
(* Bus.__init__ assigns self._trace, which Bus declares as a property      *)
(* without a setter, so building a Bus raises AttributeError.  busClass    *)
(* says whether the program builds its buses from Bus itself or from a     *)
(* class deriving from Bus that declares _trace as a plain attribute;      *)
(* Network.add accepts both.  An exception nothing catches ends the        *)
(* program (pc = "failed").                                                *)
(*                                                                         *)
(* Python values are records [type, val]: type is the Python type name and *)
(* val a number (the int itself, or the number a str of digits spells).    *)
(* Strings that are compared or sorted (bus, channel and column names) are *)
(* sequences of code points, as Python orders them.  An exception is the   *)
(* name of its class; "none" stands for a normal return.                   *)
(***************************************************************************)
EXTENDS Integers, Sequences, FiniteSets, TLC

VARIABLES
    opts,       \* SME.opts.trace, parsed when the driver is built
    decl,       \* the constructor arguments wire passes: [bus -> [name, chans]]
    busClass,   \* the class the program builds its buses from: Bus, or a class deriving from it
    puppeteer,  \* Network.puppeteer: the network class is decorated with @extends
    input,      \* the arguments of the function applied on its own (<<>> in a program run)
    result,     \* what that function returned or raised (<<>> before it is applied)
    ext,        \* the ExternalBus of the program: "absent", or "bound" once add gave it its channels
    wires,      \* how many times wire has been invoked
    procs,      \* the processes built so far
    objs,       \* the buses built so far: [bus -> [name, chans]]
    chs,        \* Bus.chs: [bus -> [channel name -> [read, write]]]
    parentName, \* Bus._parent_name: [bus -> name or NoName]
    btrace,     \* Bus._trace: [bus -> TRUE when it refers to Network.trace, FALSE when None]
    busses,     \* Network.busses
    funs,       \* Network.funs
    tracing,    \* Network.tracing
    trace,      \* Network.trace: [column name -> sequence of recorded values]
    emitted,    \* what Network.clock wrote to trace_file: NoFile or [header, rows]
    pc,         \* where the driver stands
    cycles,     \* the local `cycles` of Network.clock
    bi,         \* position of `for bus in self.busses`
    fi,         \* position of `for fun in self.funs`
    ri,         \* the local `i` of Process._clock
    ops,        \* channel operations the current user procedure has made
    err,        \* the exception that ended the program, "none" so far
    tick,       \* ticks begun since construction
    hist,       \* history per channel: [bus -> [channel -> record]]
    lastOp,     \* the last channel operation and the channel before it
    steps,      \* the bus and process steps of the current tick, in order
    call        \* the current clock call: [req, done, nth], nth 0 before the first call, 2 after it

vars == <<opts, decl, busClass, puppeteer, input, result, ext, wires, procs, objs, chs,
          parentName, btrace, busses, funs, tracing, trace, emitted, pc, cycles, bi, fi,
          ri, ops, err, tick, hist, lastOp, steps, call>>

----------------------------------------------------------------------------
(* Bounds of the model. *)

\* ticks begun over all clock calls
MaxTicks == 2
\* largest argument of one Network.clock call
MaxCycles == 2
\* channel operations user code makes in one tick, and in wire
MaxOps == 2

\* assignments of the network to the driver
MaxWires == 2
\* characters of a type tag
MaxTagLen == 3
\* buses and field names passed to one map_ins or map_outs
MaxArgs == 2
\* entries a column of a trace table holds when _setup_trace is applied to it
MaxRows == 1
\* applications of _setup_trace to one table
MaxApply == 2

BusOrder == <<"b1", "b2">>
BusIds == {BusOrder[k] : k \in 1..Len(BusOrder)}
ProcIds == {"p1", "p2"}

----------------------------------------------------------------------------
(* Python values. *)

None == [type |-> "NoneType", val |-> 0]
PyInt(n) == [type |-> "int", val |-> n]
PyStr(n) == [type |-> "str", val |-> n]

\* Special.Z and Special.X, both None in the source
SpecialZ == None
SpecialX == None

\* what user code writes: an int, a str of digits, and the Special values
Values == {PyInt(1), PyStr(1), SpecialZ, SpecialX}

\* `"Bus had value " + x`: str + x is defined for a str x only
ConcatRaises(x) == IF x.type = "str" THEN "none" ELSE "TypeError"

----------------------------------------------------------------------------
(* Names: sequences of code points. *)

Underscore == <<95>>
NetName == <<78>>                  \* "N"
NoName == <<>>                     \* _parent_name = None
NoneText == <<78, 111, 110, 101>>  \* "%s" % None
NameB == <<66>>                    \* "B"
NameA == <<97>>                    \* "a"
NameC == <<99>>                    \* "c"
NameD == <<100>>                   \* "d"
ChanNames == {NameC, NameD}

\* the buses of the programs checked: two buses of one channel with different
\* names, two with the same name, and a bus of two channels beside another
Shape(name, chans) == [name |-> name, chans |-> chans]
DeclPlain == [b \in BusIds |-> IF b = "b1" THEN Shape(NameB, <<NameC>>)
                                            ELSE Shape(NameA, <<>>)]
DeclTwo == [b \in BusIds |-> IF b = "b1" THEN Shape(NameB, <<NameC>>)
                                          ELSE Shape(NameA, <<NameC>>)]
DeclSame == [b \in BusIds |-> Shape(NameB, <<NameC>>)]
DeclWide == [b \in BusIds |-> IF b = "b1" THEN Shape(NameB, <<NameC, NameD>>)
                                           ELSE Shape(NameA, <<NameC>>)]


Ext(f, k, v) == [x \in DOMAIN f \cup {k} |-> IF x = k THEN v ELSE f[x]]

\* "%s" % x for a name or None
Text(x) == IF x = NoName THEN NoneText ELSE x

\* Python's order on str: by code point, a proper prefix first
LexLess(a, b) ==
    \E k \in 1..(Len(a) + 1) :
        /\ k <= Len(b)
        /\ \A j \in 1..(k - 1) : a[j] = b[j]
        /\ (k = Len(a) + 1 \/ a[k] < b[k])

RECURSIVE Sorted(_)
Sorted(S) ==
    IF S = {} THEN <<>>
    ELSE LET m == CHOOSE x \in S : \A y \in S : x = y \/ LexLess(x, y)
         IN <<m>> \o Sorted(S \ {m})

Min(S) == CHOOSE x \in S : \A y \in S : x <= y

----------------------------------------------------------------------------
(* _Channel (src/sme/_bus.py). *)

\* _Channel.__init__
ChanNew == [read |-> None, write |-> None]

\* _Channel.value (getter): the message of the exception is built first
ChanGet(c) ==
    IF c.read = None
    THEN [exc |-> IF ConcatRaises(c.read) = "none" THEN "IllegalReadException"
                  ELSE ConcatRaises(c.read),
          val |-> None]
    ELSE [exc |-> "none", val |-> c.read]

\* a setter that drives the committed slot as well
ChanSetThrough(c, v) ==
    IF c.write = None
    THEN [chan |-> [c EXCEPT !.write = v, !.read = v], exc |-> "none"]
    ELSE [chan |-> c,
          exc |-> IF ConcatRaises(c.write) = "none" THEN "IllegalWriteException"
                  ELSE ConcatRaises(c.write)]

\* _Channel.value (setter)
ChanSet(c, v) ==
    IF c.write = None
    THEN [chan |-> [c EXCEPT !.write = v], exc |-> "none"]
    ELSE [chan |-> c,
          exc |-> IF ConcatRaises(c.write) = "none" THEN "IllegalWriteException"
                  ELSE ConcatRaises(c.write)]

\* a propagate that holds the committed value when nothing is pending
ChanPropagateHold(c) ==
    [read |-> IF c.write = None THEN c.read ELSE c.write, write |-> None]

\* a propagate that commits the pending value and leaves it pending
ChanPropagateKeep(c) == [read |-> c.write, write |-> c.write]

\* _Channel.propagate
ChanPropagate(c) == [read |-> c.write, write |-> None]

----------------------------------------------------------------------------
(* Bus (src/sme/sme.py). *)

\* Bus.__init__: name, chs = {}, then `self._trace = None`, then one _Channel
\* per declared name.  Bus declares _trace as a property without a setter, so
\* the assignment raises unless the class of the object declares _trace anew
\* as a plain attribute.
BusInit(cls, name, chans) ==
    IF cls = "Bus"
    THEN [exc |-> "AttributeError", chs |-> <<>>]
    ELSE [exc |-> "none",
          chs |-> [n \in {chans[k] : k \in 1..Len(chans)} |-> ChanNew]]

\* Bus._trace_name
TraceName(parent, name, chn) ==
    Text(parent) \o Underscore \o name \o Underscore \o chn

\* a _setup_trace that gives every channel a fresh column, present or not
SetupTraceFresh(parent, name, chans, tr) ==
    LET names == {TraceName(parent, name, n) : n \in chans}
    IN [t \in DOMAIN tr \cup names |-> IF t \in names THEN <<>> ELSE tr[t]]

\* Bus._setup_trace, up to the assignment of self._trace
SetupTrace(parent, name, chans, tr) ==
    LET names == {TraceName(parent, name, n) : n \in chans}
    IN [t \in DOMAIN tr \cup names |-> IF t \in DOMAIN tr THEN tr[t] ELSE <<>>]

\* the body of `if tracing:` in Bus._clock for the channel c named n:
\* self._trace, its column, then ch.value; only IllegalReadException is caught
TraceAppend(b, n, c, tr) ==
    LET col == TraceName(parentName[b], objs[b].name, n)
        got == ChanGet(c)
    IN  IF busClass = "Bus" THEN [exc |-> "RecursionError", trace |-> tr]
        ELSE IF ~btrace[b] THEN [exc |-> "TypeError", trace |-> tr]
        ELSE IF col \notin DOMAIN tr THEN [exc |-> "KeyError", trace |-> tr]
        ELSE IF got.exc = "none"
             THEN [exc |-> "none", trace |-> [tr EXCEPT ![col] = Append(@, got.val)]]
        ELSE IF got.exc = "IllegalReadException"
             THEN [exc |-> "none", trace |-> [tr EXCEPT ![col] = Append(@, None)]]
        ELSE [exc |-> got.exc, trace |-> tr]

\* Bus._clock from the k-th channel on: cs is self.chs, tr the trace table,
\* done the names propagated so far
RECURSIVE BusClockFrom(_, _, _, _, _, _)
BusClockFrom(b, k, cs, tr, trc, done) ==
    IF k > Len(objs[b].chans)
    THEN [exc |-> "none", chs |-> cs, trace |-> tr, done |-> done]
    ELSE LET n == objs[b].chans[k]
             cs1 == [cs EXCEPT ![n] = ChanPropagate(cs[n])]
             r == TraceAppend(b, n, cs1[n], tr)
         IN  IF ~trc THEN BusClockFrom(b, k + 1, cs1, tr, trc, done \cup {n})
             ELSE IF r.exc = "none"
                  THEN BusClockFrom(b, k + 1, cs1, r.trace, trc, done \cup {n})
             ELSE [exc |-> r.exc, chs |-> cs1, trace |-> r.trace, done |-> done \cup {n}]

\* Bus._clock(tracing)
BusClockOp(b, trc) == BusClockFrom(b, 1, chs[b], trace, trc, {})

----------------------------------------------------------------------------
(* Trace emission of Network.clock. *)

\* "U" if x is None else str(int(x)), for the values of the model
Format(x) ==
    IF x = None THEN "U"
    ELSE IF x.val = 0 THEN "0" ELSE "1"

\* the header line and the data lines: zip stops at the shortest column
Emit(tr) ==
    LET cols == Sorted(DOMAIN tr)
        n == IF DOMAIN tr = {} THEN 0 ELSE Min({Len(tr[t]) : t \in DOMAIN tr})
    IN  [header |-> cols,
         rows |-> [k \in 1..n |-> [j \in 1..Len(cols) |-> Format(tr[cols[j]][k])]]]

NoFile == [header |-> <<>>, rows |-> << <<"no file">> >>]

----------------------------------------------------------------------------
(* History kept for the properties; the program does not read it. *)

\* wcalls: the values passed to write since the last propagate; ccalls: those
\* of the interval the last propagate closed; wtick, rtick: the tick in which
\* the pending and the committed value were written; ptick: the tick of the
\* last propagate; prev: the committed value the last propagate replaced;
\* plog: the value committed by each propagate made while tracing
HistNew == [wcalls |-> <<>>, ccalls |-> <<>>, wtick |-> -1, rtick |-> -1,
            ptick |-> -1, prev |-> None, plog |-> <<>>]

HistWrite(h, v, r, t) ==
    [h EXCEPT !.wcalls = Append(@, v),
              !.wtick = IF r.exc = "none" /\ v # None THEN t ELSE @]

HistPropagate(h, c, t, trc) ==
    [h EXCEPT !.wcalls = <<>>, !.ccalls = h.wcalls, !.wtick = -1,
              !.rtick = h.wtick, !.ptick = t, !.prev = c.read,
              !.plog = IF trc THEN Append(@, c.write) ELSE @]

\* the value a sequence of write calls leaves pending: the first that is not None
RECURSIVE Driven(_)
Driven(calls) ==
    IF calls = <<>> THEN None
    ELSE IF Head(calls) # None THEN Head(calls)
    ELSE Driven(Tail(calls))

NoOp == [kind |-> "none", b |-> "-", n |-> <<>>, v |-> None, exc |-> "none",
         ret |-> None, pre |-> ChanNew, cls |-> "-"]

\* how many times x occurs in a list
Count(seq, x) == Cardinality({k \in 1..Len(seq) : seq[k] = x})

\* the steps one tick makes when it runs to its end
Expected(bs, fs) ==
    [k \in 1..Len(bs) |-> <<"bus", bs[k]>>] \o [k \in 1..Len(fs) |-> <<"fun", fs[k]>>]

----------------------------------------------------------------------------
(* The program. *)

\* the network and the driver after construction
InitNet ==
    /\ objs = [x \in {} |-> 0]
    /\ chs = [x \in {} |-> 0]
    /\ parentName = [x \in {} |-> 0]
    /\ btrace = [x \in {} |-> 0]
    /\ hist = [x \in {} |-> 0]
    /\ busses = <<>>
    /\ funs = <<>>
    /\ tracing = FALSE
    /\ trace = [x \in {} |-> 0]
    /\ emitted = NoFile
    /\ pc = "new"
    /\ cycles = 0
    /\ bi = 0
    /\ fi = 0
    /\ ri = 0
    /\ ops = 0
    /\ err = "none"
    /\ tick = 0
    /\ lastOp = NoOp
    /\ steps = <<>>
    /\ call = [req |-> 0, done |-> 0, nth |-> 0]
    /\ ext = "absent"
    /\ wires = 0
    /\ procs = {}

InitRest ==
    /\ busClass \in {"Bus", "Derived"}
    /\ InitNet

\* a program run applies no function on its own
NoPure ==
    /\ input = <<>>
    /\ result = <<>>

\* a program without trace option, or with it, over two differently named buses
Init ==
    /\ opts \in BOOLEAN
    /\ decl = DeclPlain
    /\ puppeteer = FALSE
    /\ NoPure
    /\ InitRest

\* a program run with the trace option
InitTrace ==
    /\ opts = TRUE
    /\ decl \in {DeclTwo, DeclSame, DeclWide}
    /\ puppeteer = FALSE
    /\ NoPure
    /\ InitRest

\* Network._set_opts(opts) followed by Network._init(), as the SME.network
\* setter calls them: a puppeteer refuses the trace option, otherwise wire is
\* entered
SetOptsInit ==
    IF opts /\ puppeteer
    THEN /\ pc' = "failed"
         /\ err' = "Exception"
         /\ UNCHANGED <<tracing, wires, ops>>
    ELSE /\ tracing' = (tracing \/ opts)
         /\ pc' = "wiring"
         /\ wires' = wires + 1
         /\ ops' = 0
         /\ UNCHANGED err

\* SME.network (setter), the first assignment of the network
SetNetwork ==
    /\ pc = "new"
    /\ SetOptsInit
    /\ lastOp' = NoOp
    /\ UNCHANGED <<opts, decl, busClass, puppeteer, input, result, ext, procs, objs,
                   chs, parentName, btrace, busses, funs, trace, emitted, cycles, bi,
                   fi, ri, tick, hist, steps, call>>

\* wire builds a bus: Bus.__init__.  wire is taken in this order: it builds
\* its buses, adds each of them once, adds each process once, then drives
\* channels.
NewBus(b) ==
    /\ pc = "wiring"
    /\ b \notin DOMAIN objs
    /\ busses = <<>> /\ funs = <<>> /\ ops = 0
    /\ \E k \in 1..Len(BusOrder) :
           BusOrder[k] = b /\ \A j \in 1..(k - 1) : BusOrder[j] \in DOMAIN objs
    /\ LET r == BusInit(busClass, decl[b].name, decl[b].chans)
       IN  /\ lastOp' = [NoOp EXCEPT !.kind = "newbus", !.b = b, !.exc = r.exc]
           /\ IF r.exc = "none"
              THEN /\ objs' = Ext(objs, b, decl[b])
                   /\ chs' = Ext(chs, b, r.chs)
                   /\ parentName' = Ext(parentName, b, NoName)
                   /\ btrace' = Ext(btrace, b, FALSE)
                   /\ hist' = Ext(hist, b, [n \in DOMAIN r.chs |-> HistNew])
                   /\ UNCHANGED <<pc, err>>
              ELSE /\ pc' = "failed"
                   /\ err' = r.exc
                   /\ UNCHANGED <<objs, chs, parentName, btrace, hist>>
    /\ UNCHANGED <<opts, decl, busClass, puppeteer, input, result, ext, wires, procs,
                   busses, funs, tracing, trace, emitted, cycles, bi, fi, ri, ops,
                   tick, steps, call>>

\* Process.__init__ for a class deriving from Process that overrides setup
\* and run or not: ABCMeta refuses to instantiate a class that leaves the
\* abstract run alone, and __init__ calls self.setup(ins, outs)
ProcessInit(hasSetup, hasRun) ==
    IF ~hasRun THEN "TypeError"
    ELSE IF ~hasSetup THEN "UnimplementedMethodException"
    ELSE "none"

\* the methods a class deriving from Process overrides, as a word
Overrides(hasSetup, hasRun) ==
    IF hasSetup THEN (IF hasRun THEN "setup,run" ELSE "setup")
    ELSE (IF hasRun THEN "run" ELSE "neither")

\* wire builds a process, after its buses
NewProcess(p, hasSetup, hasRun) ==
    /\ pc = "wiring"
    /\ DOMAIN objs = BusIds
    /\ p \notin procs
    /\ busses = <<>> /\ funs = <<>> /\ ops = 0
    /\ LET e == ProcessInit(hasSetup, hasRun)
       IN  /\ lastOp' = [NoOp EXCEPT !.kind = "new", !.b = p, !.exc = e,
                                     !.cls = Overrides(hasSetup, hasRun)]
           /\ IF e = "none"
              THEN procs' = procs \cup {p} /\ UNCHANGED <<pc, err>>
              ELSE pc' = "failed" /\ err' = e /\ UNCHANGED procs
    /\ UNCHANGED <<opts, decl, busClass, puppeteer, input, result, ext, wires, objs,
                   chs, parentName, btrace, busses, funs, tracing, trace, emitted,
                   cycles, bi, fi, ri, ops, tick, hist, steps, call>>

\* the record of a Network.add call
AddOp(cls, x, v, e) ==
    [NoOp EXCEPT !.kind = "add", !.cls = cls, !.b = x, !.v = v, !.exc = e]

\* a Network.add that appends the bus and never sets up its trace
AddBusUntraced(b) ==
    /\ pc = "wiring"
    /\ b \in DOMAIN objs
    /\ Count(busses, b) < wires
    /\ procs = ProcIds /\ Len(funs) = (wires - 1) * Cardinality(ProcIds) /\ ops = 0
    /\ parentName' = [parentName EXCEPT ![b] = NetName]
    /\ busses' = Append(busses, b)
    /\ lastOp' = AddOp("Bus", b, None, "none")
    /\ UNCHANGED <<opts, decl, busClass, puppeteer, input, result, ext, wires, procs, objs,
                   chs, funs, tracing, emitted, cycles, bi, fi, ri, ops, tick, hist, steps,
                   call, trace, btrace, pc, err>>

\* Network.add(obj) for a Bus, called by wire; each invocation of wire adds
\* every bus once
AddBus(b) ==
    /\ pc = "wiring"
    /\ b \in DOMAIN objs
    /\ Count(busses, b) < wires
    /\ procs = ProcIds /\ Len(funs) = (wires - 1) * Cardinality(ProcIds) /\ ops = 0
    /\ parentName' = [parentName EXCEPT ![b] = NetName]
    /\ IF tracing
       THEN /\ trace' = SetupTrace(NetName, objs[b].name, DOMAIN chs[b], trace)
            /\ IF busClass = "Bus"
               THEN /\ pc' = "failed"
                    /\ err' = "AttributeError"
                    /\ lastOp' = AddOp("Bus", b, None, "AttributeError")
                    /\ UNCHANGED <<btrace, busses>>
               ELSE /\ btrace' = [btrace EXCEPT ![b] = TRUE]
                    /\ busses' = Append(busses, b)
                    /\ lastOp' = AddOp("Bus", b, None, "none")
                    /\ UNCHANGED <<pc, err>>
       ELSE /\ busses' = Append(busses, b)
            /\ lastOp' = AddOp("Bus", b, None, "none")
            /\ UNCHANGED <<trace, btrace, pc, err>>
    /\ UNCHANGED <<opts, decl, busClass, puppeteer, input, result, ext, wires, procs,
                   objs, chs, funs, tracing, emitted, cycles, bi, fi, ri, ops, tick,
                   hist, steps, call>>

\* Network.add(obj) for an ExternalBus that wire has just built: without a
\* puppeteer it raises, with one the bus takes its channels from the library
\* and enters no list
AddExternal ==
    /\ pc = "wiring"
    /\ ext = "absent"
    /\ Len(busses) = wires * Cardinality(BusIds)
    /\ Len(funs) = (wires - 1) * Cardinality(ProcIds) /\ ops = 0
    /\ IF puppeteer
       THEN /\ ext' = "bound"
            /\ lastOp' = AddOp("ExternalBus", "ext", None, "none")
            /\ UNCHANGED <<pc, err>>
       ELSE /\ pc' = "failed"
            /\ err' = "SMEException"
            /\ lastOp' = AddOp("ExternalBus", "ext", None, "SMEException")
            /\ UNCHANGED ext
    /\ UNCHANGED <<opts, decl, busClass, puppeteer, input, result, wires, procs, objs,
                   chs, parentName, btrace, busses, funs, tracing, trace, emitted,
                   cycles, bi, fi, ri, ops, tick, hist, steps, call>>

\* a Network.add that puts the process in front of the list
AddProcessFront(p) ==
    /\ pc = "wiring"
    /\ p \in procs
    /\ Count(funs, p) < wires
    /\ Len(busses) = wires * Cardinality(BusIds) /\ ops = 0
    /\ funs' = <<p>> \o funs
    /\ lastOp' = AddOp("Process", p, None, "none")
    /\ UNCHANGED <<opts, decl, busClass, puppeteer, input, result, ext, wires, procs,
                   objs, chs, parentName, btrace, busses, tracing, trace, emitted, pc,
                   cycles, bi, fi, ri, ops, err, tick, hist, steps, call>>

\* Network.add(obj) for a Process, called by wire; each invocation of wire
\* adds every process once
AddProcess(p) ==
    /\ pc = "wiring"
    /\ p \in procs
    /\ Count(funs, p) < wires
    /\ Len(busses) = wires * Cardinality(BusIds) /\ ops = 0
    /\ funs' = Append(funs, p)
    /\ lastOp' = AddOp("Process", p, None, "none")
    /\ UNCHANGED <<opts, decl, busClass, puppeteer, input, result, ext, wires, procs,
                   objs, chs, parentName, btrace, busses, tracing, trace, emitted, pc,
                   cycles, bi, fi, ri, ops, err, tick, hist, steps, call>>

\* Network.add(obj) for a value that is no Bus, ExternalBus or Process
AddOther(v) ==
    /\ pc = "wiring"
    /\ Len(funs) = wires * Cardinality(ProcIds) /\ ops = 0
    /\ pc' = "failed"
    /\ err' = "TypeError"
    /\ lastOp' = AddOp("other", "-", v, "TypeError")
    /\ UNCHANGED <<opts, decl, busClass, puppeteer, input, result, ext, wires, procs,
                   objs, chs, parentName, btrace, busses, funs, tracing, trace,
                   emitted, cycles, bi, fi, ri, ops, tick, hist, steps, call>>

\* bus[n] or bus[n] = v for a name the bus has no channel of: self.chs[n]
\* raises KeyError, in read and in write alike
NoChannel(b, n, v, what) ==
    /\ lastOp' = [NoOp EXCEPT !.kind = "nochan", !.b = b, !.n = n, !.v = v,
                              !.exc = "KeyError", !.cls = what]
    /\ pc' = "failed"
    /\ err' = "KeyError"

\* bus[n] = v, the write of user code (wire or run): _BaseBus.write
UserWrite(b, n, v, at) ==
    /\ pc = at
    /\ ops < MaxOps
    /\ b \in DOMAIN objs
    /\ IF n \in DOMAIN chs[b]
       THEN LET r == ChanSet(chs[b][n], v)
            IN  /\ chs' = [chs EXCEPT ![b][n] = r.chan]
                /\ hist' = [hist EXCEPT ![b][n] = HistWrite(@, v, r, tick)]
                /\ lastOp' = [kind |-> "write", b |-> b, n |-> n, v |-> v, exc |-> r.exc,
                              ret |-> None, pre |-> chs[b][n], cls |-> "-"]
                /\ IF r.exc = "none"
                   THEN UNCHANGED <<pc, err>>
                   ELSE pc' = "failed" /\ err' = r.exc
       ELSE /\ NoChannel(b, n, v, "write")
            /\ UNCHANGED <<chs, hist>>
    /\ ops' = ops + 1
    /\ UNCHANGED <<opts, decl, busClass, puppeteer, input, result, ext, wires, procs,
                   objs, parentName, btrace, busses, funs, tracing, trace, emitted,
                   cycles, bi, fi, ri, tick, steps, call>>

\* a read whose exception is caught where it is raised, so that the caller
\* carries on
UserReadCaught(b, n, at) ==
    /\ pc = at
    /\ ops < MaxOps
    /\ b \in DOMAIN objs
    /\ n \in DOMAIN chs[b]
    /\ LET r == ChanGet(chs[b][n])
       IN  /\ lastOp' = [kind |-> "read", b |-> b, n |-> n, v |-> None, exc |-> r.exc,
                         ret |-> r.val, pre |-> chs[b][n], cls |-> "-"]
           /\ err' = (IF r.exc = "none" THEN err ELSE r.exc)
    /\ ops' = ops + 1
    /\ UNCHANGED <<opts, decl, busClass, puppeteer, input, result, ext, wires, procs,
                   objs, chs, parentName, btrace, busses, funs, tracing, trace,
                   emitted, cycles, bi, fi, ri, tick, hist, steps, call, pc>>

\* bus[n], the read of user code: _BaseBus.read
UserRead(b, n, at) ==
    /\ pc = at
    /\ ops < MaxOps
    /\ b \in DOMAIN objs
    /\ IF n \in DOMAIN chs[b]
       THEN LET r == ChanGet(chs[b][n])
            IN  /\ lastOp' = [kind |-> "read", b |-> b, n |-> n, v |-> None, exc |-> r.exc,
                              ret |-> r.val, pre |-> chs[b][n], cls |-> "-"]
                /\ IF r.exc = "none"
                   THEN UNCHANGED <<pc, err>>
                   ELSE pc' = "failed" /\ err' = r.exc
       ELSE NoChannel(b, n, None, "read")
    /\ ops' = ops + 1
    /\ UNCHANGED <<opts, decl, busClass, puppeteer, input, result, ext, wires, procs,
                   objs, chs, parentName, btrace, busses, funs, tracing, trace,
                   emitted, cycles, bi, fi, ri, tick, hist, steps, call>>

\* wire drives a channel
WireWrite(b, n, v) ==
    /\ Len(funs) = wires * Cardinality(ProcIds)
    /\ UserWrite(b, n, v, "wiring")

\* wire returns, and with it _init and the setter
WireReturn ==
    /\ pc = "wiring"
    /\ Len(funs) = wires * Cardinality(ProcIds)
    /\ pc' = "ready"
    /\ ops' = 0
    /\ lastOp' = NoOp
    /\ UNCHANGED <<opts, decl, busClass, puppeteer, input, result, ext, wires, procs,
                   objs, chs, parentName, btrace, busses, funs, tracing, trace,
                   emitted, cycles, bi, fi, ri, err, tick, hist, steps, call>>

\* Network.clock(n) is called
ClockCall(n) ==
    /\ pc = "ready"
    /\ tick + n <= MaxTicks
    /\ cycles' = n
    /\ pc' = "loop"
    /\ call' = [req |-> n, done |-> 0, nth |-> IF call.nth = 0 THEN 1 ELSE 2]
    /\ UNCHANGED <<opts, decl, busClass, puppeteer, input, result, ext, wires, procs,
                   objs, chs, parentName, btrace, busses, funs, tracing, trace,
                   emitted, bi, fi, ri, ops, err, tick, hist, lastOp, steps>>

\* a tick that runs the processes before the buses are clocked
TickBeginFunsFirst ==
    /\ pc = "loop"
    /\ cycles > 0
    /\ pc' = "fun"
    /\ fi' = 1
    /\ tick' = tick + 1
    /\ steps' = <<>>
    /\ lastOp' = NoOp
    /\ ops' = 0
    /\ UNCHANGED <<opts, decl, busClass, puppeteer, input, result, ext, wires, procs,
                   objs, chs, parentName, btrace, busses, funs, tracing, trace,
                   emitted, cycles, bi, ri, err, hist, call>>

\* `while cycles > 0:` is entered
TickBegin ==
    /\ pc = "loop"
    /\ cycles > 0
    /\ pc' = "bus"
    /\ bi' = 1
    /\ tick' = tick + 1
    /\ steps' = <<>>
    /\ lastOp' = NoOp
    /\ ops' = 0
    /\ UNCHANGED <<opts, decl, busClass, puppeteer, input, result, ext, wires, procs,
                   objs, chs, parentName, btrace, busses, funs, tracing, trace,
                   emitted, cycles, fi, ri, err, hist, call>>

\* bus._clock(tracing=self.tracing) for the next bus
BusClock ==
    /\ pc = "bus"
    /\ bi <= Len(busses)
    /\ LET b == busses[bi]
           r == BusClockOp(b, tracing)
       IN  /\ chs' = [chs EXCEPT ![b] = r.chs]
           /\ trace' = r.trace
           /\ hist' = [hist EXCEPT ![b] =
                          [n \in DOMAIN hist[b] |->
                              IF n \in r.done
                              THEN HistPropagate(hist[b][n], chs[b][n], tick, tracing)
                              ELSE hist[b][n]]]
           /\ steps' = Append(steps, <<"bus", b>>)
           /\ lastOp' = [NoOp EXCEPT !.kind = "clock", !.b = b, !.exc = r.exc]
           /\ IF r.exc = "none"
              THEN bi' = bi + 1 /\ UNCHANGED <<pc, err>>
              ELSE pc' = "failed" /\ err' = r.exc /\ UNCHANGED bi
    /\ UNCHANGED <<opts, decl, busClass, puppeteer, input, result, ext, wires, procs,
                   objs, parentName, btrace, busses, funs, tracing, emitted, cycles,
                   fi, ri, ops, tick, call>>

\* _LibSme.propagate and _LibSme.tick hand over to the library and raise
\* _LibSmeException when it reports a failure
LibOutcomes == {"none", "_LibSmeException"}

\* a bus loop that ends without the call of the library
BusesDoneAlone ==
    /\ pc = "bus"
    /\ bi > Len(busses)
    /\ pc' = "fun"
    /\ fi' = 1
    /\ UNCHANGED <<opts, decl, busClass, puppeteer, input, result, ext, wires, procs,
                   objs, chs, parentName, btrace, busses, funs, tracing, trace,
                   emitted, cycles, bi, ri, ops, err, tick, hist, lastOp, steps, call>>

\* the bus loop is exhausted; a puppeteer calls lib_handle.propagate()
BusesDone ==
    /\ pc = "bus"
    /\ bi > Len(busses)
    /\ IF puppeteer
       THEN \E e \in LibOutcomes :
               /\ steps' = Append(steps, <<"lib", "propagate">>)
               /\ IF e = "none"
                  THEN pc' = "fun" /\ fi' = 1 /\ UNCHANGED err
                  ELSE pc' = "failed" /\ err' = e /\ UNCHANGED fi
       ELSE /\ pc' = "fun"
            /\ fi' = 1
            /\ UNCHANGED <<steps, err>>
    /\ UNCHANGED <<opts, decl, busClass, puppeteer, input, result, ext, wires, procs,
                   objs, chs, parentName, btrace, busses, funs, tracing, trace,
                   emitted, cycles, bi, ri, ops, tick, hist, lastOp, call>>

\* fun._clock() for the next process: i = 1, and run() is entered
FunClock ==
    /\ pc = "fun"
    /\ fi <= Len(funs)
    /\ ri' = 1
    /\ pc' = "run"
    /\ steps' = Append(steps, <<"fun", funs[fi]>>)
    /\ UNCHANGED <<opts, decl, busClass, puppeteer, input, result, ext, wires, procs,
                   objs, chs, parentName, btrace, busses, funs, tracing, trace,
                   emitted, cycles, bi, fi, ops, err, tick, hist, lastOp, call>>

\* run writes a channel
RunWrite(b, n, v) == UserWrite(b, n, v, "run")

\* run reads a channel
RunRead(b, n) == UserRead(b, n, "run")

\* run() returns: i -= 1, and `while i > 0` either runs again or ends _clock
RunReturn ==
    /\ pc = "run"
    /\ ri' = ri - 1
    /\ IF ri - 1 > 0
       THEN /\ steps' = Append(steps, <<"fun", funs[fi]>>)
            /\ UNCHANGED <<pc, fi>>
       ELSE /\ pc' = "fun"
            /\ fi' = fi + 1
            /\ UNCHANGED steps
    /\ UNCHANGED <<opts, decl, busClass, puppeteer, input, result, ext, wires, procs,
                   objs, chs, parentName, btrace, busses, funs, tracing, trace,
                   emitted, cycles, bi, ops, err, tick, hist, lastOp, call>>

\* the process loop is exhausted; a puppeteer calls lib_handle.tick(); then
\* cycles -= 1
TickEnd ==
    /\ pc = "fun"
    /\ fi > Len(funs)
    /\ IF puppeteer
       THEN \E e \in LibOutcomes :
               /\ steps' = Append(steps, <<"lib", "tick">>)
               /\ IF e = "none"
                  THEN /\ cycles' = cycles - 1
                       /\ call' = [call EXCEPT !.done = @ + 1]
                       /\ pc' = "loop"
                       /\ UNCHANGED err
                  ELSE /\ pc' = "failed"
                       /\ err' = e
                       /\ UNCHANGED <<cycles, call>>
       ELSE /\ cycles' = cycles - 1
            /\ call' = [call EXCEPT !.done = @ + 1]
            /\ pc' = "loop"
            /\ UNCHANGED <<steps, err>>
    /\ UNCHANGED <<opts, decl, busClass, puppeteer, input, result, ext, wires, procs,
                   objs, chs, parentName, btrace, busses, funs, tracing, trace,
                   emitted, bi, fi, ri, ops, tick, hist, lastOp>>

\* the while loop ends: the trace is written if tracing, and clock returns
ClockReturn ==
    /\ pc = "loop"
    /\ cycles <= 0
    /\ emitted' = IF tracing THEN Emit(trace) ELSE emitted
    /\ pc' = "ready"
    /\ UNCHANGED <<opts, decl, busClass, puppeteer, input, result, ext, wires, procs,
                   objs, chs, parentName, btrace, busses, funs, tracing, trace, cycles,
                   bi, fi, ri, ops, err, tick, hist, lastOp, steps, call>>

Next ==
    \/ SetNetwork
    \/ \E b \in BusIds : NewBus(b)
    \/ \E p \in ProcIds, hasSetup \in BOOLEAN, hasRun \in BOOLEAN :
          NewProcess(p, hasSetup, hasRun)
    \/ \E b \in BusIds : AddBus(b)
    \/ AddExternal
    \/ \E p \in ProcIds : AddProcess(p)
    \/ \E v \in Values : AddOther(v)
    \/ \E b \in BusIds, n \in ChanNames, v \in Values : WireWrite(b, n, v)
    \/ WireReturn
    \/ \E n \in 0..MaxCycles : ClockCall(n)
    \/ TickBegin
    \/ BusClock
    \/ BusesDone
    \/ FunClock
    \/ \E b \in BusIds, n \in ChanNames, v \in Values : RunWrite(b, n, v)
    \/ \E b \in BusIds, n \in ChanNames : RunRead(b, n)
    \/ RunReturn
    \/ TickEnd
    \/ ClockReturn

Spec == Init /\ [][Next]_vars

SpecTrace == InitTrace /\ [][Next]_vars

\* SME.network (setter), a further assignment of the same network: the options
\* are applied and wire is invoked again
SetNetworkAgain ==
    /\ pc = "ready"
    /\ wires < MaxWires
    /\ SetOptsInit
    /\ lastOp' = NoOp
    /\ UNCHANGED <<opts, decl, busClass, puppeteer, input, result, ext, procs, objs,
                   chs, parentName, btrace, busses, funs, trace, emitted, cycles, bi,
                   fi, ri, tick, hist, steps, call>>

\* a driver that may assign its network more than once
NextDriver ==
    \/ Next
    \/ SetNetworkAgain

\* such a driver, run with the trace option
InitDriver ==
    /\ opts = TRUE
    /\ decl = DeclPlain
    /\ puppeteer = FALSE
    /\ NoPure
    /\ InitRest

SpecDriver == InitDriver /\ [][NextDriver]_vars

----------------------------------------------------------------------------
(* Properties. *)

\* C1: one-tick latency.  A read that returns a value during tick k returns the
\* value written during tick k-1 and committed by the bus phase of tick k; it
\* never returns a value written during tick k, whoever wrote it.
C1_OneTickLatency ==
    /\ (lastOp.kind = "read" /\ lastOp.exc = "none") =>
          LET h == hist[lastOp.b][lastOp.n]
          IN  /\ h.rtick = tick - 1
              /\ h.ptick = tick
              /\ lastOp.ret = Driven(h.ccalls)
    /\ \A b \in DOMAIN chs : \A n \in DOMAIN chs[b] :
          chs[b][n].read # None => hist[b][n].rtick < tick

\* a process wrote the channel in tick 1; in tick 2 the channel is written
\* again and then read, and the read returns the value of tick 1
C1_Witness ==
    /\ lastOp.kind = "read" /\ lastOp.exc = "none"
    /\ tick = 2
    /\ hist[lastOp.b][lastOp.n].rtick = 1
    /\ hist[lastOp.b][lastOp.n].wtick = 2
    /\ chs[lastOp.b][lastOp.n].write # lastOp.ret

\* C2: tick step order.  The steps of a tick are always a prefix of: every
\* registered bus once in registration order, then every registered process
\* once in registration order; a tick that ends has made all of them, and a
\* clock call that returns has made exactly `cycles` ticks.
C2_TickStepOrder ==
    LET want == Expected(busses, funs)
    IN  /\ Len(steps) <= Len(want)
        /\ steps = SubSeq(want, 1, Len(steps))
        /\ pc = "bus" => Len(steps) = bi - 1
        /\ pc = "fun" => Len(steps) = Len(busses) + fi - 1
        /\ pc = "run" => Len(steps) = Len(busses) + fi
        /\ (pc = "loop" /\ call.done > 0) => steps = want
        /\ pc = "loop" => call.done + cycles = call.req
        /\ (pc = "ready" /\ call.nth > 0) =>
              call.done = (IF call.req > 0 THEN call.req ELSE 0)

\* clock(2) returned over two buses registered against their order of creation
\* and two processes
C2_Witness ==
    /\ pc = "ready"
    /\ call.req = 2 /\ call.done = 2
    /\ busses = <<"b2", "b1">>
    /\ funs = <<"p2", "p1">>
    /\ steps = <<<<"bus", "b2">>, <<"bus", "b1">>, <<"fun", "p2">>, <<"fun", "p1">>>>

\* C3: no hold.  A channel that received no write between its last two
\* propagates has an empty committed slot, whatever it held before, and a read
\* of it fails instead of returning the old value.
C3_NoHold ==
    /\ \A b \in DOMAIN chs : \A n \in DOMAIN chs[b] :
          (hist[b][n].ptick >= 0 /\ hist[b][n].ccalls = <<>>) =>
              chs[b][n].read = None
    /\ (lastOp.kind = "read" /\ hist[lastOp.b][lastOp.n].ptick >= 0
           /\ hist[lastOp.b][lastOp.n].ccalls = <<>>) =>
          (lastOp.exc # "none" /\ lastOp.ret = None)

\* a channel held a committed value, was propagated again without a write, and
\* the read that followed failed
C3_Witness ==
    /\ lastOp.kind = "read" /\ lastOp.exc # "none"
    /\ hist[lastOp.b][lastOp.n].prev # None
    /\ hist[lastOp.b][lastOp.n].ccalls = <<>>
    /\ hist[lastOp.b][lastOp.n].ptick = tick

\* C4: single writer per cycle.  A write to a channel whose pending slot is
\* filled fails with IllegalWriteException and leaves the pending value as it
\* was; a write to a channel whose pending slot is empty succeeds.
C4_DoubleWrite ==
    /\ (lastOp.kind = "write" /\ lastOp.pre.write # None) =>
          /\ lastOp.exc = "IllegalWriteException"
          /\ chs[lastOp.b][lastOp.n] = lastOp.pre
    /\ (lastOp.kind = "write" /\ lastOp.pre.write = None) => lastOp.exc = "none"

\* C5: a read of a channel whose committed slot is empty fails with
\* IllegalReadException and leaves the channel as it was.
C5_UndrivenRead ==
    (lastOp.kind = "read" /\ lastOp.pre.read = None) =>
        /\ lastOp.exc = "IllegalReadException"
        /\ chs[lastOp.b][lastOp.n] = lastOp.pre

\* C6: round trip.  When exactly one write(v) preceded the last propagate of a
\* channel, for any v user code can write, a read succeeds, returns v and
\* leaves both slots as they were.
C6_RoundTrip ==
    (lastOp.kind = "read" /\ hist[lastOp.b][lastOp.n].ptick >= 0
        /\ Len(hist[lastOp.b][lastOp.n].ccalls) = 1) =>
        /\ lastOp.exc = "none"
        /\ lastOp.ret = hist[lastOp.b][lastOp.n].ccalls[1]
        /\ chs[lastOp.b][lastOp.n] = lastOp.pre

\* the column of a registered bus's channel in the emitted header
ColIndex(t) == CHOOSE j \in 1..Len(emitted.header) : emitted.header[j] = t

Registered == {busses[k] : k \in 1..Len(busses)}

\* C7: trace row content.  With tracing on, the first clock(n), n >= 1, returns
\* with n data rows emitted, and row k of a traced channel is the value written
\* to it during tick k-1, U when nothing was written (so row 1 is U unless wire
\* drove the channel).
C7_TraceRows ==
    (tracing /\ call.nth = 1 /\ call.req >= 1 /\ pc \in {"ready", "failed"}) =>
        /\ pc = "ready"
        /\ Len(emitted.rows) = call.req
        /\ \A b \in Registered : \A n \in DOMAIN chs[b] :
              LET t == TraceName(parentName[b], objs[b].name, n)
              IN  \A k \in 1..call.req :
                     /\ k <= Len(hist[b][n].plog)
                     /\ emitted.rows[k][ColIndex(t)] = Format(hist[b][n].plog[k])

\* C8: trace capture recovers.  A Bus._clock with tracing on raises nothing,
\* propagates every channel of the bus in this tick, and the column of a
\* channel left undriven ends with the Undefined marker.
C8_TraceRecovery ==
    (lastOp.kind = "clock" /\ tracing) =>
        /\ lastOp.exc = "none"
        /\ \A n \in DOMAIN chs[lastOp.b] :
              LET t == TraceName(parentName[lastOp.b], objs[lastOp.b].name, n)
              IN  /\ hist[lastOp.b][n].ptick = tick
                  /\ Len(trace[t]) > 0
                  /\ chs[lastOp.b][n].read = None => trace[t][Len(trace[t])] = None

\* C9: trace table shape.  With tracing on, between ticks every column of the
\* trace table holds one entry per completed tick.
C9_TraceShape ==
    (tracing /\ pc \in {"loop", "ready"}) =>
        \A t \in DOMAIN trace : Len(trace[t]) = tick

\* C10: trace emission order.  The emitted header is in ascending order of
\* column name with a field per row, and row k of a column is the value
\* recorded at the k-th propagate of the channel the column belongs to.
C10_EmissionOrder ==
    emitted # NoFile =>
        /\ \A i, j \in 1..Len(emitted.header) :
              i < j => LexLess(emitted.header[i], emitted.header[j])
        /\ \A k \in 1..Len(emitted.rows) :
              /\ Len(emitted.rows[k]) = Len(emitted.header)
              /\ \A b \in Registered : \A n \in DOMAIN chs[b] :
                    LET t == TraceName(parentName[b], objs[b].name, n)
                    IN  /\ k <= Len(hist[b][n].plog)
                        /\ emitted.rows[k][ColIndex(t)] = Format(hist[b][n].plog[k])

\* the step is a call of Network.add made by wire
IsAdd == pc = "wiring" /\ lastOp'.kind = "add"

\* what Network.add does with a Bus and with a Process
AddKnown ==
    /\ lastOp'.cls = "Bus" =>
          /\ lastOp'.exc = "none"
          /\ busses' = Append(busses, lastOp'.b)
          /\ funs' = funs
          /\ IF tracing
             THEN /\ btrace'[lastOp'.b]
                  /\ DOMAIN trace' = DOMAIN trace \cup
                        {TraceName(NetName, objs[lastOp'.b].name, n) : n \in DOMAIN chs[lastOp'.b]}
                  /\ \A t \in DOMAIN trace' :
                        trace'[t] = (IF t \in DOMAIN trace THEN trace[t] ELSE <<>>)
             ELSE trace' = trace /\ btrace' = btrace
    /\ lastOp'.cls = "Process" =>
          /\ lastOp'.exc = "none"
          /\ funs' = Append(funs, lastOp'.b)
          /\ busses' = busses
          /\ trace' = trace

ListsKept == pc \in {"loop", "bus", "fun", "run"} => (busses' = busses /\ funs' = funs)

\* every bus and process wire has registered is in its list once
ListedOnce ==
    /\ \A b \in BusIds : Count(busses, b) <= 1
    /\ \A p \in ProcIds : Count(funs, p) <= 1

\* C12: wiring happens once.  Whatever the driver does, wire is invoked once,
\* every bus and process is in its list once, and no step of a clock call
\* changes the lists.
C12_WiredOnce == [](wires <= 1 /\ ListedOnce) /\ [][ListsKept]_vars

\* a step that raises ends the program where it stands and writes no trace
\* file, and a program that has raised takes no further step
Aborts ==
    /\ err = "none"
    /\ err' # "none" => (pc' = "failed" /\ emitted' = emitted /\ cycles' = cycles)

\* C13: tick-time failures abort the whole advance.  An exception raised by a
\* bus or process step of a tick leaves Network.clock uncaught: no later step
\* of that tick or of a remaining tick is made and no trace file is written.
C13_TickAbort == [][Aborts]_vars

\* clock(2) with tracing on failed on a write in the first run of its first
\* tick: the second process, the second tick and the trace file are missing
C13_Witness ==
    /\ pc = "failed" /\ err # "none"
    /\ lastOp.kind = "write" /\ lastOp.exc = err
    /\ tracing /\ emitted = NoFile
    /\ call.req = 2 /\ call.done = 0 /\ cycles = 2 /\ tick = 1
    /\ steps = <<<<"bus", "b1">>, <<"bus", "b2">>, <<"fun", "p1">>>>
    /\ funs = <<"p1", "p2">>

----------------------------------------------------------------------------
(* Types._classify_type, applied on its own.  A tag is a sequence of          *)
(* characters; "nl" is the newline.                                           *)

Digits == {"0", "1"}
TagChars == {"b", "i", "u", "x", "-", "nl"} \cup Digits
Tags == UNION {[1..k -> TagChars] : k \in 0..MaxTagLen}

\* int() of a string of digits
RECURSIVE IntOf(_)
IntOf(ds) ==
    IF ds = <<>> THEN 0
    ELSE 10 * IntOf(SubSeq(ds, 1, Len(ds) - 1)) + (IF ds[Len(ds)] = "1" THEN 1 ELSE 0)

\* where `$` matches in t: at the end, and before a newline that ends t
AtEnd(t, k) == k = Len(t) \/ (k = Len(t) - 1 /\ t[Len(t)] = "nl")

\* Types.typere.match(t): the two groups of the match, or no match
TypeMatch(t) ==
    IF t # <<>> /\ t[1] = "b" /\ AtEnd(t, 1)
    THEN [ok |-> TRUE, g1 |-> "b", g2 |-> <<>>]
    ELSE IF /\ t # <<>> /\ t[1] \in {"i", "u"}
            /\ \E k \in 2..Len(t) : AtEnd(t, k) /\ \A j \in 2..k : t[j] \in Digits
         THEN LET k == CHOOSE k \in 2..Len(t) : AtEnd(t, k) /\ \A j \in 2..k : t[j] \in Digits
              IN  [ok |-> TRUE, g1 |-> t[1], g2 |-> SubSeq(t, 2, k)]
         ELSE [ok |-> FALSE, g1 |-> "-", g2 |-> <<>>]

\* _Boolean(n), _Signed(n, w), _Unsigned(n, w): none of the classes overrides
\* the abstract __repr__ of _BaseType, so ABCMeta refuses to instantiate them
TypeNew(kind, w) == [exc |-> "TypeError", kind |-> "-", width |-> 0]

InvalidType == [exc |-> "InvalidTypeException", kind |-> "-", width |-> 0]

\* Types._classify_type(n, t): _Boolean is built outside any try, the integer
\* types inside `try ... except Exception: raise InvalidTypeException`
ClassifyType(t) ==
    LET m == TypeMatch(t)
    IN  IF ~m.ok THEN InvalidType
        ELSE IF m.g1 = "b" THEN TypeNew("Boolean", 0)
        ELSE LET r == TypeNew(IF m.g1 = "i" THEN "Signed" ELSE "Unsigned", IntOf(m.g2))
             IN  IF r.exc = "none" THEN r ELSE InvalidType

\* the driver stays as built
Idle ==
    UNCHANGED <<opts, decl, busClass, puppeteer, ext, wires, procs, objs, chs, parentName,
                btrace, busses, funs, tracing, trace, emitted, pc, cycles, bi, fi, ri, ops,
                err, tick, hist, lastOp, steps, call>>

InitIdle ==
    /\ opts = FALSE
    /\ decl = DeclPlain
    /\ busClass = "Derived"
    /\ puppeteer = FALSE
    /\ InitNet

InitTypes ==
    /\ input \in Tags
    /\ result = <<>>
    /\ InitIdle

\* Types().<t>(name)
Classify ==
    /\ input \in Tags
    /\ result = <<>>
    /\ result' = ClassifyType(input)
    /\ UNCHANGED input
    /\ Idle

NextTypes == Classify

SpecTypes == InitTypes /\ [][NextTypes]_vars

\* the tags of the grammar: b, or i or u followed by digits that spell a
\* positive number
InGrammar(t) ==
    \/ t = <<"b">>
    \/ /\ Len(t) >= 2
       /\ t[1] \in {"i", "u"}
       /\ \A j \in 2..Len(t) : t[j] \in Digits
       /\ IntOf(SubSeq(t, 2, Len(t))) > 0

\* C14: type tag parsing.  b yields Boolean, i<digits> Signed and u<digits>
\* Unsigned of the width the digits spell, a positive number; every other tag
\* fails with InvalidTypeException and yields no descriptor.
C14_TypeTags ==
    result # <<>> =>
        IF InGrammar(input)
        THEN /\ result.exc = "none"
             /\ result.kind = (IF input[1] = "b" THEN "Boolean"
                               ELSE IF input[1] = "i" THEN "Signed" ELSE "Unsigned")
             /\ input[1] # "b" => result.width = IntOf(SubSeq(input, 2, Len(input)))
        ELSE result = InvalidType

----------------------------------------------------------------------------
(* Process._map_busses, applied on its own to a process whose __dict__ is a   *)
(* function from attribute names to buses.                                    *)

FieldNames == {"x", "y"}
NoAttrs == [a \in {} |-> "-"]
MapInputs ==
    [busses : UNION {[1..k -> BusIds] : k \in 0..MaxArgs},
     args : UNION {[1..k -> FieldNames] : k \in 0..MaxArgs},
     dict : {NoAttrs, [a \in {"x"} |-> "b2"]}]

\* `for n, b in zip(args, busses): self.__dict__[n] = b`, from position k on
RECURSIVE Bind(_, _, _, _)
Bind(d, args, bs, k) ==
    IF k > Len(args) \/ k > Len(bs) THEN d
    ELSE Bind(Ext(d, args[k], bs[k]), args, bs, k + 1)

\* a _map_busses that binds first and compares the lengths afterwards
MapBussesEager(d, bs, args) ==
    [exc |-> IF Len(bs) # Len(args) THEN "BusMapMismatch" ELSE "none",
     dict |-> Bind(d, args, bs, 1)]

\* Process._map_busses(busses, *args) on a process whose __dict__ is d
MapBusses(d, bs, args) ==
    IF Len(bs) # Len(args)
    THEN [exc |-> "BusMapMismatch", dict |-> d]
    ELSE [exc |-> "none", dict |-> Bind(d, args, bs, 1)]

InitMap ==
    /\ input \in MapInputs
    /\ result = <<>>
    /\ InitIdle

\* self.map_ins(busses, *args) or self.map_outs(busses, *args)
MapIns ==
    /\ input \in MapInputs
    /\ result = <<>>
    /\ result' = MapBusses(input.dict, input.busses, input.args)
    /\ UNCHANGED input
    /\ Idle

NextMap == MapIns

SpecMap == InitMap /\ [][NextMap]_vars

\* a call with lists that differ in length raises BusMapMismatch and leaves
\* the attributes of the process as they were
MapMismatch ==
    Len(input.busses) # Len(input.args) =>
        (result.exc = "BusMapMismatch" /\ result.dict = input.dict)

\* the last position of a field name in the list
LastAt(args, a) ==
    CHOOSE k \in 1..Len(args) : args[k] = a /\ \A j \in (k + 1)..Len(args) : args[j] # a

\* C15 as stated: with lists of equal length attribute field_names[i] is bound
\* to buses[i] for every i; with lists that differ in length the call raises
\* BusMapMismatch and binds nothing.
C15_MapArity_Original ==
    result # <<>> =>
        /\ Len(input.busses) = Len(input.args) =>
              /\ result.exc = "none"
              /\ \A i \in 1..Len(input.args) :
                    /\ input.args[i] \in DOMAIN result.dict
                    /\ result.dict[input.args[i]] = input.busses[i]
        /\ MapMismatch

\* C15 amended: with lists of equal length every field name of the list is
\* bound to the bus at the last position where the name occurs (buses[i] when
\* the name occurs at i only), and attributes not named stay as they were; with
\* lists that differ in length the call raises BusMapMismatch and binds nothing.
C15_MapArity ==
    result # <<>> =>
        /\ Len(input.busses) = Len(input.args) =>
              /\ result.exc = "none"
              /\ DOMAIN result.dict =
                    DOMAIN input.dict \cup {input.args[i] : i \in 1..Len(input.args)}
              /\ \A i \in 1..Len(input.args) :
                    result.dict[input.args[i]] = input.busses[LastAt(input.args, input.args[i])]
              /\ \A a \in DOMAIN input.dict :
                    (\A i \in 1..Len(input.args) : input.args[i] # a) =>
                        result.dict[a] = input.dict[a]
        /\ MapMismatch

\* one field name given twice for two different buses
C15_Witness ==
    /\ result # <<>>
    /\ result.exc = "none"
    /\ Len(input.args) = 2
    /\ input.args[1] = input.args[2]
    /\ input.busses[1] # input.busses[2]
    /\ result.dict[input.args[1]] = input.busses[2]

----------------------------------------------------------------------------
(* Bus._setup_trace, applied on its own to a bus added to the network and a   *)
(* trace table that may hold columns and entries already.                     *)

BusNames == {NameA, NameB}
AllColumns == {TraceName(NetName, nm, n) : nm \in BusNames, n \in ChanNames}
Entries == UNION {[1..k -> {None, PyInt(1)}] : k \in 0..MaxRows}
Tables == UNION {[cols -> Entries] : cols \in SUBSET AllColumns}
SetupInputs == [name : BusNames, chans : SUBSET ChanNames, table : Tables]

InitSetup ==
    /\ input \in SetupInputs
    /\ result = <<>>
    /\ InitIdle

\* the table as the applications made so far have left it
TableNow == IF result = <<>> THEN input.table ELSE result[Len(result)]

\* bus._setup_trace(table), once more
SetupAgain ==
    /\ input \in SetupInputs
    /\ Len(result) < MaxApply
    /\ result' = Append(result, SetupTrace(NetName, input.name, input.chans, TableNow))
    /\ UNCHANGED input
    /\ Idle

NextSetup == SetupAgain

SpecSetup == InitSetup /\ [][NextSetup]_vars

\* the columns _setup_trace derives for the channels of the bus
Columns == {TraceName(NetName, input.name, n) : n \in input.chans}

\* C16: _setup_trace is idempotent.  After it the table has one column per
\* channel of the bus under the derived name, and what the table held before
\* is as it was; applied again to the same table it adds no column and leaves
\* every recorded entry as it was.
C16_SetupTraceIdempotent ==
    /\ Len(result) >= 1 =>
          /\ Cardinality(Columns) = Cardinality(input.chans)
          /\ DOMAIN result[1] = DOMAIN input.table \cup Columns
          /\ \A t \in DOMAIN input.table : result[1][t] = input.table[t]
          /\ \A t \in Columns \ DOMAIN input.table : result[1][t] = <<>>
    /\ \A k \in 2..Len(result) : result[k] = result[k - 1]

\* applied twice to a bus of two channels and a table that held a recorded
\* entry in the column of one of them and no column for the other
C16_Witness ==
    /\ Len(result) = 2
    /\ input.chans = ChanNames
    /\ \E t \in Columns : t \in DOMAIN input.table /\ Len(input.table[t]) = 1
                          /\ result[2][t] = input.table[t]
    /\ \E t \in Columns : t \notin DOMAIN input.table /\ result[2][t] = <<>>

\* the channel names a bus was declared with
Declared(b) == {decl[b].chans[k] : k \in 1..Len(decl[b].chans)}

\* C17: fixed channel set.  Building a Bus from a list of channel names
\* succeeds and gives one channel per name, both slots empty; the channels of
\* a bus are the declared names ever after; a read or write of a name that is
\* not declared raises the error of a missing channel and adds none.
C17_FixedChannels ==
    /\ lastOp.kind = "newbus" =>
          /\ lastOp.exc = "none"
          /\ chs[lastOp.b] = [n \in Declared(lastOp.b) |-> ChanNew]
    /\ \A b \in DOMAIN chs : DOMAIN chs[b] = Declared(b)
    /\ lastOp.kind = "nochan" =>
          (lastOp.exc = "KeyError" /\ lastOp.n \notin DOMAIN chs[lastOp.b])

\* C18: missing overrides.  Building a process of a class without setup raises
\* UnimplementedMethodException, from the call of setup in Process.__init__; a
\* process of a class with setup and without run is built, its failure being
\* left to the first call of run; either failure ends the program.
C18_MissingOverrides ==
    lastOp.kind = "new" =>
        /\ lastOp.cls \in {"run", "neither"} =>
              (lastOp.exc = "UnimplementedMethodException" /\ pc = "failed")
        /\ lastOp.cls = "setup" => (lastOp.exc = "none" /\ lastOp.b \in procs)
        /\ lastOp.cls = "setup,run" => (lastOp.exc = "none" /\ lastOp.b \in procs)

----------------------------------------------------------------------------
(* Networks extended with a foreign engine (@extends) and their external bus. *)

\* user code calls ExternalBus._clock() or the propagate() of one of its
\* channels itself: both raise SMEException
ExtDirect(what) ==
    /\ ext = "bound"
    /\ \/ pc = "run"
       \/ pc = "wiring" /\ Len(funs) = wires * Cardinality(ProcIds)
    /\ ops < MaxOps
    /\ ops' = ops + 1
    /\ lastOp' = [NoOp EXCEPT !.kind = "ext", !.b = "ext", !.cls = what,
                              !.exc = "SMEException"]
    /\ pc' = "failed"
    /\ err' = "SMEException"
    /\ UNCHANGED <<opts, decl, busClass, puppeteer, input, result, ext, wires, procs,
                   objs, chs, parentName, btrace, busses, funs, tracing, trace,
                   emitted, cycles, bi, fi, ri, tick, hist, steps, call>>

NextForeign ==
    \/ Next
    \/ \E what \in {"_clock", "propagate"} : ExtDirect(what)

\* a network class with the @extends decorator or without it
InitForeign ==
    /\ opts \in BOOLEAN
    /\ decl = DeclPlain
    /\ puppeteer \in BOOLEAN
    /\ NoPure
    /\ InitRest

SpecForeign == InitForeign /\ [][NextForeign]_vars

\* the steps one tick of a puppeteer makes when it runs to its end
ExpectedForeign(bs, fs) ==
    [k \in 1..Len(bs) |-> <<"bus", bs[k]>>] \o << <<"lib", "propagate">> >>
        \o [k \in 1..Len(fs) |-> <<"fun", fs[k]>>] \o << <<"lib", "tick">> >>

\* C19: foreign-driven tick protocol.  A tick of a puppeteer propagates the
\* local buses, calls the library's propagate once, runs every process once
\* and calls the library's tick once, in this order; the external bus is in no
\* list, so no step of a tick is its _clock; its _clock and its channels'
\* propagate raise when called directly; adding an ExternalBus to a network
\* that is no puppeteer raises.
C19_ForeignTick ==
    /\ puppeteer =>
          LET want == ExpectedForeign(busses, funs)
          IN  /\ Len(steps) <= Len(want)
              /\ steps = SubSeq(want, 1, Len(steps))
              /\ pc = "bus" => Len(steps) = bi - 1
              /\ pc = "fun" => Len(steps) = Len(busses) + fi
              /\ pc = "run" => Len(steps) = Len(busses) + fi + 1
              /\ (pc = "loop" /\ call.done > 0) => steps = want
              /\ (pc = "ready" /\ call.nth > 0) =>
                    call.done = (IF call.req > 0 THEN call.req ELSE 0)
    /\ \A k \in 1..Len(busses) : busses[k] \in BusIds
    /\ \A k \in 1..Len(steps) : steps[k] # <<"bus", "ext">>
    /\ lastOp.kind = "ext" => (lastOp.exc = "SMEException" /\ pc = "failed")
    /\ (lastOp.kind = "add" /\ lastOp.cls = "ExternalBus") =>
          IF puppeteer
          THEN lastOp.exc = "none" /\ ext = "bound"
          ELSE lastOp.exc = "SMEException" /\ pc = "failed" /\ ext = "absent"

\* a puppeteer with its external bus bound returned from clock(2)
C19_Witness ==
    /\ puppeteer /\ ext = "bound"
    /\ pc = "ready"
    /\ call.req = 2 /\ call.done = 2
    /\ steps = <<<<"bus", "b2">>, <<"bus", "b1">>, <<"lib", "propagate">>,
                 <<"fun", "p1">>, <<"fun", "p2">>, <<"lib", "tick">>>>

\* C20: pending slots are empty when the processes start.  When the process
\* phase of a tick begins, no channel of a registered bus holds a pending
\* value, and the first write a tick makes to a channel of a registered bus
\* succeeds, whatever wire and earlier ticks wrote.
C20_PendingEmpty ==
    /\ (pc = "fun" /\ fi = 1) =>
          \A b \in Registered : \A n \in DOMAIN chs[b] : chs[b][n].write = None
    /\ (lastOp.kind = "write" /\ tick >= 1 /\ lastOp.b \in Registered
           /\ Len(hist[lastOp.b][lastOp.n].wcalls) = 1) =>
          /\ hist[lastOp.b][lastOp.n].ptick = tick
          /\ lastOp.pre.write = None
          /\ lastOp.exc = "none"

\* the channel was written in wire and in tick 1, and the first write of tick 2
\* to it succeeded
C20_Witness ==
    /\ lastOp.kind = "write" /\ lastOp.exc = "none" /\ lastOp.v # None
    /\ tick = 2
    /\ Len(hist[lastOp.b][lastOp.n].wcalls) = 1
    /\ hist[lastOp.b][lastOp.n].rtick = 1
    /\ hist[lastOp.b][lastOp.n].prev # None

\* the bus refers to the trace table of the network, which has a column for
\* each of its channels
Attached(b) ==
    /\ btrace[b]
    /\ parentName[b] = NetName
    /\ \A n \in DOMAIN chs[b] : TraceName(parentName[b], objs[b].name, n) \in DOMAIN trace

\* C21: tracing implies every bus is attached.  The options are applied before
\* wire is invoked and the tracing flag keeps the value they gave it; while a
\* clock call runs with the flag set, every registered bus refers to the
\* network's trace table and the table has a column for each of its channels,
\* so no Bus._clock fails for want of the table or of a column.
C21_TracedBusesAttached ==
    /\ wires >= 1 => tracing = opts
    /\ (tracing /\ pc \in {"loop", "bus", "fun", "run"}) =>
          \A b \in Registered : Attached(b)
    /\ (tracing /\ lastOp.kind = "clock") =>
          (Attached(lastOp.b) /\ lastOp.exc \notin {"KeyError", "RecursionError"})

\* the second traced tick clocked a bus with a channel, and each column of the
\* bus has taken an entry in both ticks
C21_Witness ==
    /\ tracing /\ tick = 2
    /\ lastOp.kind = "clock" /\ lastOp.exc = "none"
    /\ DOMAIN chs[lastOp.b] # {}
    /\ \A n \in DOMAIN chs[lastOp.b] :
          Len(trace[TraceName(NetName, objs[lastOp.b].name, n)]) >= 2

====
